---- MODULE Spec2Model ----
(***************************************************************************)
(* Query samplers of cardinal/base.py: the degenerate-pool guard of        *)
(* BaseQuerySampler, the strategy dispatch of ScoredQuerySampler and the   *)
(* stage loop of ChainQuerySampler.                                        *)
(*                                                                         *)
(* A pool X is a sequence of feature rows; indices are 0-based as in the   *)
(* source, so a selection is a sequence of numbers in 0..Len(X)-1.         *)
(* numpy calls are modelled by their documented behaviour:                 *)
(*   np.argsort(a)      default kind 'quicksort', not stable: any          *)
(*                      permutation that puts a in ascending order;        *)
(*   a[-k:]             Python slice with a negative start;                *)
(*   choice(replace=False, p=...)  ValueError when fewer than `size`       *)
(*                      entries of p are positive, otherwise `size`        *)
(*                      distinct indices of positive probability, and the  *)
(*                      generator state advances.                          *)
(***************************************************************************)
EXTENDS Integers, Sequences, FiniteSets, TLC

\* ---- bounds ----
MaxPool    == 2   \* longest unlabeled pool handed to a scored sampler
MaxFeature == 2   \* its rows are single features 0..MaxFeature
MaxBatch   == 3   \* batch sizes 1..MaxBatch
MaxDraws   == 2   \* draws after which the generator counter is capped
MaxChain   == 2   \* longest chain
MaxChainPool == 2 \* longest unlabeled pool handed to a chain
MaxChainFeature == 1 \* its rows are single features 0..MaxChainFeature
MaxLabeled == 1   \* longest labeled set handed to fit

VARIABLES sampler_list,    \* ChainQuerySampler.sampler_list: sequence of sampler ids
          batch_size,      \* sampler id -> self.batch_size
          strategy,        \* sampler id -> self.strategy
          random_state,    \* sampler id -> number of draws taken from self.random_state
          sample_scores_,  \* sampler id -> self.sample_scores_ ([set, v])
          fitted,          \* sampler id -> arguments of the last fit ([set, X, y])
          call,            \* the last top-level call
          ret,             \* what that call returned or raised
          warnings,        \* warnings emitted during that call
          trace            \* calls a chain made on its samplers during that call

vars == <<sampler_list, batch_size, strategy, random_state, sample_scores_,
          fitted, call, ret, warnings, trace>>

\* ---- values ----
Features   == 0..MaxFeature
SeqsUpTo(S, lo, hi) == UNION {[1..n -> S] : n \in lo..hi}
Pools      == SeqsUpTo(Features, 0, MaxPool)
ChainFeatures == 0..MaxChainFeature
ChainPools == SeqsUpTo(ChainFeatures, 0, MaxChainPool)
\* labeled sets: fit is abstract and nothing reads their rows, so one row
\* value stands for all of them
LabeledSets == SeqsUpTo({0}, 1, MaxLabeled)
Labels     == {1}
Strategies == {"top", "linear_choice", "squared_choice", "bottom"}
KnownStrategies == {"top", "linear_choice", "squared_choice"}

NoY        == [given |-> FALSE, v |-> <<>>]
SomeY(v)   == [given |-> TRUE, v |-> v]
LabelArgs(X) == {NoY} \cup {SomeY(v) : v \in [1..Len(X) -> Labels]}
NoScores   == [set |-> FALSE, v |-> <<>>]
NoFit      == [set |-> FALSE, X |-> <<>>, y |-> NoY]
NoError    == [type |-> "", arg |-> ""]
Returned(index) == [status |-> "return", index |-> index, error |-> NoError, self |-> FALSE]
Raised(type, arg) == [status |-> "raise", index |-> <<>>,
                      error |-> [type |-> type, arg |-> arg], self |-> FALSE]

Range(f) == {f[i] : i \in DOMAIN f}
Injective(f) == \A i, j \in DOMAIN f : f[i] = f[j] => i = j

RECURSIVE Sum(_)
Sum(s) == IF s = <<>> THEN 0 ELSE Head(s) + Sum(Tail(s))

\* ---- numpy / Python primitives ----
arange(n) == [i \in 1..n |-> i - 1]

\* a[idx] for an index array idx
Take(a, idx) == [k \in 1..Len(idx) |-> a[idx[k] + 1]]

IsAscending(a, p) == \A k \in 1..(Len(p) - 1) : a[p[k] + 1] <= a[p[k + 1] + 1]

\* every ascending order of the indices in rest: a lowest-scored one first
RECURSIVE Orders(_, _)
Orders(a, rest) ==
    IF rest = {} THEN {<<>>}
    ELSE LET firsts == {i \in rest : \A j \in rest : a[i + 1] <= a[j + 1]}
         IN  UNION {{<<i>> \o p : p \in Orders(a, rest \ {i})} : i \in firsts}

\* np.argsort(a) with the default kind: every ascending order of a
argsort(a) == Orders(a, 0..(Len(a) - 1))

\* variant: seq[:-start], the other end of the sorted order
PySliceFirst(seq, start) == SubSeq(seq, 1, -start)

\* seq[start:]
PySliceFrom(seq, start) ==
    LET n  == Len(seq)
        lo == IF start < 0
              THEN (IF n + start < 0 THEN 0 ELSE n + start)
              ELSE (IF start > n THEN n ELSE start)
    IN  SubSeq(seq, lo + 1, n)

square(a) == [i \in 1..Len(a) |-> a[i] * a[i]]

\* a / np.sum(a), kept as numerators over a common denominator
normalize(a) == [num |-> a, den |-> Sum(a)]
Positive(p, i) == p.den > 0 /\ p.num[i] > 0

\* RandomState.choice(np.arange(n), size=size, replace=False, p=p)
choice(n, size, p) ==
    LET support == {i - 1 : i \in {j \in 1..n : Positive(p, j)}}
    IN  IF size > n \/ Cardinality(support) < size
        THEN {[ok |-> FALSE, index |-> <<>>]}
        ELSE {[ok |-> TRUE, index |-> q] :
                q \in {r \in [1..size -> support] : Injective(r)}}

\* ---- BaseQuerySampler ----
not_enough_samples(b, X) == Len(X) < b

\* variant: the two format arguments exchanged
NotEnoughSamplesWarning_swapped(b, X) == [requested |-> Len(X), available |-> b]
\* 'Requested {} samples but data only has {}.'
NotEnoughSamplesWarning(b, X) == [requested |-> b, available |-> Len(X)]

\* ---- ScoredQuerySampler ----
\* the abstract scoring hook: one score per row, in row order
score_samples(X) == [i \in 1..Len(X) |-> X[i]]

\* variant: the cache assigned after `sample_scores ** 2`
cached_after_squaring(strat, sc) == IF strat = "squared_choice" THEN square(sc) ELSE sc
\* self.sample_scores_ = sample_scores, assigned before the dispatch
cached(strat, sc) == sc

Drawn(b, n, weights) ==
    {IF c.ok THEN [ret |-> Returned(c.index), drew |-> TRUE]
             ELSE [ret |-> Raised("ValueError", "p"), drew |-> FALSE] :
        c \in choice(n, b, normalize(weights))}

\* variant: a dispatch whose else branch falls back to top
dispatch_default_top(b, strat, sc) ==
    IF strat = "linear_choice" THEN Drawn(b, Len(sc), sc)
    ELSE IF strat = "squared_choice" THEN Drawn(b, Len(sc), square(sc))
    ELSE {[ret |-> Returned(PySliceFrom(p, -b)), drew |-> FALSE] : p \in argsort(sc)}

\* the if / elif / else over self.strategy
dispatch(b, strat, sc) ==
    IF strat = "top"
    THEN {[ret |-> Returned(PySliceFrom(p, -b)), drew |-> FALSE] : p \in argsort(sc)}
    ELSE IF strat = "linear_choice" THEN Drawn(b, Len(sc), sc)
    ELSE IF strat = "squared_choice" THEN Drawn(b, Len(sc), square(sc))
    ELSE {[ret |-> Raised("ValueError", strat), drew |-> FALSE]}

\* every outcome of select_samples for a sampler (b, strat) on pool X
Outcomes(b, strat, X) ==
    IF not_enough_samples(b, X)
    THEN {[ret |-> Returned(arange(Len(X))), drew |-> FALSE, scored |-> FALSE,
           warned |-> <<NotEnoughSamplesWarning(b, X)>>]}
    ELSE {[ret |-> d.ret, drew |-> d.drew, scored |-> TRUE, warned |-> <<>>] :
            d \in dispatch(b, strat, score_samples(X))}

\* variant: a generator consumed by every call
advance_always(rs, drew) == rs + 1
\* the generator after a call: choice consumes it, nothing else does
advance(rs, drew) == IF drew THEN rs + 1 ELSE rs

\* the sampler's attributes after an outcome o of select_samples on X
ScoresAfter(s, X, o) ==
    IF o.scored THEN [set |-> TRUE, v |-> cached(strategy[s], score_samples(X))]
    ELSE sample_scores_[s]

CanDraw(s, o) == o.drew => random_state[s] < MaxDraws

select_samples(s, X) ==
    \E o \in Outcomes(batch_size[s], strategy[s], X) :
        /\ CanDraw(s, o)
        /\ sample_scores_' = [sample_scores_ EXCEPT ![s] = ScoresAfter(s, X, o)]
        /\ random_state' = [random_state EXCEPT ![s] = advance(@, o.drew)]
        /\ call' = [op |-> "select_samples", sampler |-> s, X |-> X, y |-> NoY]
        /\ ret' = o.ret
        /\ warnings' = o.warned
        /\ trace' = <<>>
        /\ UNCHANGED <<sampler_list, batch_size, strategy, fitted>>

Samplers == 1..Len(sampler_list)

Init ==
    /\ \E n \in 1..MaxChain :
        /\ sampler_list = [k \in 1..n |-> k]
        /\ batch_size \in [1..n -> 1..MaxBatch]
        /\ strategy \in [1..n -> Strategies]
        /\ random_state = [k \in 1..n |-> 0]
        /\ sample_scores_ = [k \in 1..n |-> NoScores]
        /\ fitted = [k \in 1..n |-> NoFit]
    /\ call = [op |-> "__init__", sampler |-> 0, X |-> <<>>, y |-> NoY]
    /\ ret = Returned(<<>>)
    /\ warnings = <<>>
    /\ trace = <<>>

\* one scored sampler used on its own
InitScored == Init /\ Len(sampler_list) = 1

NextScored == \E s \in Samplers, X \in Pools : select_samples(s, X)

Spec == InitScored /\ [][NextScored]_vars

\* ---- ChainQuerySampler ----
\* a call made on a sampler: its arguments and, for a selection, what it returned
Event(op, s, X, y, out) == [op |-> op, sampler |-> s, X |-> X, y |-> y, out |-> out]

\* attributes of a sampler: those BaseQuerySampler and ScoredQuerySampler
\* define or set, and the two abstract hooks a concrete sampler supplies
Attributes == {"batch_size", "strategy", "random_state", "sample_scores_",
               "fit", "select_samples", "score_samples", "_not_enough_samples"}

\* variant: a fit that reaches every sampler of the chain
fit_targets_all == Range(sampler_list)
\* self.sampler_list[0].fit(X, y)
fit_targets == {sampler_list[1]}

Chain_fit(X, y) ==
    /\ fitted' = [s \in DOMAIN fitted |->
                    IF s \in fit_targets THEN [set |-> TRUE, X |-> X, y |-> y]
                    ELSE fitted[s]]
    /\ call' = [op |-> "chain.fit", sampler |-> 0, X |-> X, y |-> y]
    /\ ret' = [status |-> "return", index |-> <<>>, error |-> NoError, self |-> TRUE]
    /\ warnings' = <<>>
    /\ trace' = <<Event("fit", sampler_list[1], X, y, <<>>)>>
    /\ UNCHANGED <<sampler_list, batch_size, strategy, random_state, sample_scores_>>

\* variant: sampler.fit(X[selected])
fit_arg_subset(X, selected) == Take(X, selected)
\* sampler.fit(X): the argument of the fit of a later sampler
fit_arg(X, selected) == X

\* the lookup of an attribute on a sampler
lookup(name) ==
    IF name \in Attributes THEN NoError ELSE [type |-> "AttributeError", arg |-> name]

\* the body of `for sampler in self.sampler_list[1:]` for the sampler at
\* position k: sampler.fit(X) runs, then the lookup of sampler.predict raises
iteration(k, X, selected, fits, tr) ==
    LET s == sampler_list[k]
        f == [fits EXCEPT ![s] = [set |-> TRUE, X |-> fit_arg(X, selected), y |-> NoY]]
        t == Append(tr, Event("fit", s, fit_arg(X, selected), NoY, <<>>))
    IN  [ret |-> [status |-> "raise", index |-> <<>>, error |-> lookup("predict"),
                  self |-> FALSE],
         fitted |-> f, trace |-> t]

\* the loop over the later samplers: with none, `return selected`; otherwise
\* the raise of its first iteration ends the call
loop(X, selected, fits, tr) ==
    IF Len(sampler_list) < 2
    THEN [ret |-> Returned(selected), fitted |-> fits, trace |-> tr]
    ELSE iteration(2, X, selected, fits, tr)

Chain_select_samples(X) ==
    LET s1 == sampler_list[1] IN
    \E o \in Outcomes(batch_size[s1], strategy[s1], X) :
        LET first == <<Event("select_samples", s1, X, NoY, o.ret.index)>>
            rest  == IF o.ret.status = "raise"
                     THEN [ret |-> o.ret, fitted |-> fitted, trace |-> first]
                     ELSE loop(X, o.ret.index, fitted, first)
        IN  /\ CanDraw(s1, o)
            /\ sample_scores_' = [sample_scores_ EXCEPT ![s1] = ScoresAfter(s1, X, o)]
            /\ random_state' = [random_state EXCEPT ![s1] = advance(@, o.drew)]
            /\ fitted' = rest.fitted
            /\ call' = [op |-> "chain.select_samples", sampler |-> 0, X |-> X, y |-> NoY]
            /\ ret' = rest.ret
            /\ warnings' = o.warned
            /\ trace' = rest.trace
            /\ UNCHANGED <<sampler_list, batch_size, strategy>>

NextChain ==
    \/ \E X \in LabeledSets : \E y \in LabelArgs(X) : Chain_fit(X, y)
    \/ \E X \in ChainPools : Chain_select_samples(X)

\* a chain of samplers built with the default strategy, from the coarsest
\* to the finest: no sampler asks for more than the one before it
InitChain ==
    /\ Init
    /\ \A k \in 1..Len(sampler_list) : strategy[sampler_list[k]] = "top"
    /\ \A k \in 2..Len(sampler_list) :
         batch_size[sampler_list[k]] <= batch_size[sampler_list[k - 1]]

SpecChain == InitChain /\ [][NextChain]_vars

\* ---- properties ----
IsSelect    == call.op = "select_samples"
IsChainSelect == call.op = "chain.select_samples"
IsChainFit  == call.op = "chain.fit"
TheSampler  == call.sampler
PoolSize    == Len(call.X)
ValidSelection(index, n, k) ==
    /\ Len(index) = k
    /\ Injective(index)
    /\ Range(index) \subseteq 0..(n - 1)

\* C1 (as claimed): with a known strategy and a pool of at least batch_size
\* rows, select_samples returns exactly batch_size distinct indices of the pool.
C1_ExactBatch ==
    (IsSelect /\ strategy[TheSampler] \in KnownStrategies
              /\ PoolSize >= batch_size[TheSampler])
    => /\ ret.status = "return"
       /\ ValidSelection(ret.index, PoolSize, batch_size[TheSampler])

\* C2: on a pool of fewer than batch_size rows select_samples returns
\* 0..poolSize-1 in natural order and emits exactly one warning that carries
\* the requested batch_size and the available pool size; it does not raise.
C2_DegeneratePool ==
    (IsSelect /\ PoolSize < batch_size[TheSampler])
    => /\ ret = Returned(arange(PoolSize))
       /\ \A i \in 1..PoolSize : ret.index[i] = i - 1
       /\ warnings = <<[requested |-> batch_size[TheSampler], available |-> PoolSize]>>

C2_Witness ==
    /\ IsSelect
    /\ PoolSize = 2
    /\ batch_size[TheSampler] = 3
    /\ ret.index = <<0, 1>>
    /\ Len(warnings) = 1

\* C3 (as claimed): with an unknown strategy every select_samples call, for
\* every pool size, raises the unknown-strategy error and returns no selection.
C3_AlwaysRaises ==
    (IsSelect /\ strategy[TheSampler] \notin KnownStrategies)
    => ret = Raised("ValueError", strategy[TheSampler])

\* C3 (amended): with an unknown strategy select_samples raises the
\* unknown-strategy error naming the strategy, and returns no selection, when
\* the pool has at least batch_size rows; on a smaller pool the guard returns
\* every index with the warning before the strategy is looked at.
C3_UnknownStrategy ==
    (IsSelect /\ strategy[TheSampler] \notin KnownStrategies)
    => IF PoolSize >= batch_size[TheSampler]
       THEN ret = Raised("ValueError", strategy[TheSampler]) /\ warnings = <<>>
       ELSE ret = Returned(arange(PoolSize)) /\ Len(warnings) = 1

C3_Witness ==
    /\ IsSelect
    /\ strategy[TheSampler] \notin KnownStrategies
    /\ PoolSize > batch_size[TheSampler]
    /\ ret.status = "raise"
    /\ ret.error.arg = "bottom"

\* the ascending stable order: among equal scores the lower index first
stable_argsort(a) ==
    CHOOSE p \in argsort(a) :
        \A k \in 1..(Len(p) - 1) : a[p[k] + 1] = a[p[k + 1] + 1] => p[k] < p[k + 1]

\* C4 (as claimed): under top with enough rows the selection is the last
\* batch_size positions of the ascending stable sort of the scores.
C4_StableTop ==
    (IsSelect /\ strategy[TheSampler] = "top" /\ PoolSize >= batch_size[TheSampler])
    => ret.index = PySliceFrom(stable_argsort(score_samples(call.X)),
                               -batch_size[TheSampler])

\* C4 (amended): under top with enough rows the selection is batch_size
\* distinct indices in ascending score order such that every unselected index
\* has a score less than or equal to that of every selected one; which of the
\* rows tied at the cut-off are selected is not fixed.
C4_TopSelectsHighest ==
    (IsSelect /\ strategy[TheSampler] = "top" /\ PoolSize >= batch_size[TheSampler])
    => LET sc == score_samples(call.X) IN
       /\ ret.status = "return"
       /\ ValidSelection(ret.index, PoolSize, batch_size[TheSampler])
       /\ IsAscending(sc, ret.index)
       /\ \A u \in (0..(PoolSize - 1)) \ Range(ret.index) :
            \A v \in Range(ret.index) : sc[u + 1] <= sc[v + 1]

C4_Witness ==
    /\ IsSelect
    /\ strategy[TheSampler] = "top"
    /\ PoolSize > batch_size[TheSampler]
    /\ ret.status = "return"
    /\ \E u \in (0..(PoolSize - 1)) \ Range(ret.index) :
         \E v \in Range(ret.index) : u > v /\ call.X[u + 1] = call.X[v + 1]

\* C5 (as claimed): a chain of two top samplers with batch sizes b1 >= b2 on
\* a pool of more than b1 rows returns exactly b2 indices, all among b1
\* indices the first sampler selects on that pool.
C5_ChainOfTwoTop ==
    (/\ IsChainSelect
     /\ Len(sampler_list) = 2
     /\ \A k \in 1..2 : strategy[sampler_list[k]] = "top"
     /\ batch_size[sampler_list[1]] >= batch_size[sampler_list[2]]
     /\ PoolSize > batch_size[sampler_list[1]])
    => /\ ret.status = "return"
       /\ ValidSelection(ret.index, PoolSize, batch_size[sampler_list[2]])
       /\ Range(ret.index) \subseteq Range(trace[1].out)

\* C6 (as claimed): a chain call ends with a selection made of indices of the
\* original pool, no larger than the first stage's selection and no larger
\* than the smallest batch_size in the chain.
C6_ChainShrinks ==
    IsChainSelect
    => /\ ret.status = "return"
       /\ Injective(ret.index)
       /\ Range(ret.index) \subseteq Range(trace[1].out)
       /\ Range(ret.index) \subseteq 0..(PoolSize - 1)
       /\ \A k \in 1..Len(sampler_list) : Len(ret.index) <= batch_size[sampler_list[k]]

LaterFits == {i \in 2..Len(trace) : trace[i].op = "fit"}

\* C7 (as claimed): every fit the chain makes on a later sampler passes exactly
\* the rows of the currently selected subset, with no labels.
C7_FitOnSubset ==
    IsChainSelect
    => \A i \in LaterFits :
         /\ trace[i].X = Take(call.X, trace[1].out)
         /\ trace[i].y = NoY

\* C7 (amended): once the first stage has returned, the second sampler of the
\* chain is fitted, before any selection is asked of it, and every fit the
\* chain makes on a later sampler passes all rows of the pool given to the
\* call, with no labels.
C7_FitOnFullPool ==
    (IsChainSelect /\ Len(sampler_list) >= 2 /\ trace[1].op = "select_samples"
                   /\ ~(ret.status = "raise" /\ ret.error.type = "ValueError"))
    => /\ Len(trace) >= 2
       /\ trace[2] = Event("fit", sampler_list[2], call.X, NoY, <<>>)
       /\ fitted[sampler_list[2]] = [set |-> TRUE, X |-> call.X, y |-> NoY]
       /\ \A i \in LaterFits : trace[i].X = call.X /\ trace[i].y = NoY
       /\ \A i \in 2..Len(trace) : trace[i].op = "fit"

C7_Witness ==
    /\ IsChainSelect
    /\ Len(sampler_list) >= 2
    /\ Len(trace[1].out) < PoolSize
    /\ trace[2].op = "fit"
    /\ trace[2].X = call.X
    /\ Take(call.X, trace[1].out) # call.X

\* C8: ChainQuerySampler.fit(X, y) fits the first sampler of the chain with
\* (X, y), changes nothing of any later sampler and returns the chain itself.
C8_ChainFitFirstOnly ==
    [][LET X == call'.X
           y == call'.y
       IN  IsChainFit' =>
            /\ fitted'[sampler_list[1]] = [set |-> TRUE, X |-> X, y |-> y]
            /\ trace' = <<Event("fit", sampler_list[1], X, y, <<>>)>>
            /\ ret'.status = "return" /\ ret'.self
            /\ \A k \in 2..Len(sampler_list) :
                 /\ fitted'[sampler_list[k]] = fitted[sampler_list[k]]
                 /\ sample_scores_'[sampler_list[k]] = sample_scores_[sampler_list[k]]
                 /\ random_state'[sampler_list[k]] = random_state[sampler_list[k]]
                 /\ batch_size'[sampler_list[k]] = batch_size[sampler_list[k]]
                 /\ strategy'[sampler_list[k]] = strategy[sampler_list[k]]]_vars

C8_Witness ==
    /\ IsChainFit
    /\ Len(sampler_list) >= 2
    /\ call.y.given
    /\ fitted[sampler_list[1]] = [set |-> TRUE, X |-> call.X, y |-> call.y]
    /\ fitted[sampler_list[2]].set
    /\ fitted[sampler_list[2]] # fitted[sampler_list[1]]
    /\ ret.self

\* C9 (as claimed): a select_samples call changes nothing of the sampler
\* but sample_scores_: batch_size, strategy and the random source are as before.
C9_OnlyCacheChanges ==
    [][LET s == call'.sampler
           X == call'.X
       IN  IsSelect' =>
            /\ batch_size' = batch_size
            /\ strategy' = strategy
            /\ fitted' = fitted
            /\ random_state' = random_state]_vars

\* C9 (amended): a select_samples call changes nothing of the sampler but
\* sample_scores_ and, when the strategy is linear_choice or squared_choice
\* and indices are drawn, the state of the random source, which advances;
\* batch_size and strategy are as before.
C9_CacheAndRandomSource ==
    [][LET s == call'.sampler
           X == call'.X
       IN  IsSelect' =>
            /\ batch_size' = batch_size
            /\ strategy' = strategy
            /\ fitted' = fitted
            /\ \A t \in Samplers \ {s} : random_state'[t] = random_state[t]
            /\ IF /\ strategy[s] \in {"linear_choice", "squared_choice"}
                  /\ ret'.status = "return"
                  /\ Len(X) >= batch_size[s]
               THEN random_state'[s] = random_state[s] + 1
               ELSE random_state'[s] = random_state[s]]_vars

C9_Witness ==
    /\ IsSelect
    /\ strategy[TheSampler] = "squared_choice"
    /\ ret.status = "return"
    /\ PoolSize > batch_size[TheSampler]
    /\ random_state[TheSampler] = 2

\* C10 (as claimed): after a select_samples call the cache holds the scores
\* of the pool of that call.
C10_CacheIsLastCall ==
    IsSelect => sample_scores_[TheSampler] = [set |-> TRUE, v |-> score_samples(call.X)]

\* C10 (amended): a select_samples call on a pool of at least batch_size rows
\* leaves in the cache the scores score_samples returned for that pool, one
\* per row and unsquared, whatever the strategy does next; a call on a smaller
\* pool leaves the cache as it was.
C10_CacheIsLastScoredCall ==
    [][LET s == call'.sampler
           X == call'.X
       IN  IsSelect' =>
            sample_scores_'[s] =
                IF Len(X) >= batch_size[s]
                THEN [set |-> TRUE, v |-> score_samples(X)]
                ELSE sample_scores_[s]]_vars

C10_Witness ==
    /\ IsSelect
    /\ strategy[TheSampler] = "squared_choice"
    /\ PoolSize >= batch_size[TheSampler]
    /\ ret.status = "return"
    /\ \E i \in 1..PoolSize : call.X[i] = 2
    /\ sample_scores_[TheSampler].v = score_samples(call.X)
    /\ square(sample_scores_[TheSampler].v) # sample_scores_[TheSampler].v
====
